---- MODULE Spec2Model ----
(***************************************************************************)
(* The worker's dispatch loop (src/worker/worker.py): run(), the two       *)
(* top-level routines processRequest() and processNotification(), and the  *)
(* two registries `handlers` and `players` they share.                     *)
(*                                                                         *)
(* The parent process writes frames to the inbound pipe (READ_FD); the     *)
(* loop reads them one at a time and awaits the whole handling of one      *)
(* frame before it reads the next.  Channel, Request, Notification and     *)
(* Handler live in channel.py / handler.py, which are not part of the      *)
(* sources at hand: their behaviour is taken from the specification        *)
(* (sections 4.1, 4.2 and 6).                                              *)
(***************************************************************************)
EXTENDS Naturals, Sequences, FiniteSets, TLC

\* ------------------------------------------------------------------ bounds
\* Number of frames the parent writes in one run.
MaxMsgs == 4
\* Number of frames that can wait unread in the inbound pipe.
MaxQueue == 1
\* Number of frames the parent writes in a run checked for liveness.
MaxFairMsgs == 3

\* --------------------------------------------------------------- alphabet
HandlerIds == {"h1", "h2"}
PlayerIds == {"p1"}
\* a key that is absent from the JSON object
NoKey == "-"
\* a method / an event that is not one of the built-in ones
HandlerMethod == "handler.method"
HandlerEvent == "handler.event"

Frame(isNull, method, event, id, target, kind) ==
    [null |-> isNull, method |-> method, event |-> event, id |-> id,
     target |-> target, kind |-> kind]

\* what receive() yields for a frame that does not parse
NullFrame == Frame(TRUE, NoKey, NoKey, 0, NoKey, NoKey)
\* no frame at all (the loop is between two messages)
NoFrame == Frame(FALSE, NoKey, NoKey, 0, NoKey, NoKey)

\* The frames the parent may write as its n-th frame.  A Request carries the
\* id n; id 0 stands for an object without an "id" key.
RequestFrames(n) ==
    {Frame(FALSE, "createHandler", NoKey, n, h, NoKey) : h \in HandlerIds \cup {NoKey}}
    \cup {Frame(FALSE, "createPlayer", NoKey, n, p, NoKey) : p \in PlayerIds \cup {NoKey}}
    \cup {Frame(FALSE, "getRtpCapabilities", NoKey, n, NoKey, NoKey)}
    \cup {Frame(FALSE, HandlerMethod, NoKey, n, h, NoKey) : h \in HandlerIds \cup {NoKey}}

NotificationFrames ==
    {Frame(FALSE, NoKey, "handler.close", 0, h, NoKey) : h \in HandlerIds \cup {NoKey}}
    \cup {Frame(FALSE, NoKey, "player.close", 0, p, NoKey) : p \in PlayerIds \cup {NoKey}}
    \cup {Frame(FALSE, NoKey, "player.stopTrack", 0, p, k) :
              p \in PlayerIds, k \in {"audio", "video"}}
    \cup {Frame(FALSE, NoKey, "player.stopTrack", 0, NoKey, "audio")}
    \cup {Frame(FALSE, NoKey, HandlerEvent, 0, h, NoKey) : h \in HandlerIds \cup {NoKey}}

\* an object with a "method" key and no "id" key
IdlessRequest == Frame(FALSE, HandlerMethod, NoKey, 0, "h1", NoKey)
\* an object with neither a "method" nor an "event" key
JunkFrame == Frame(FALSE, NoKey, NoKey, 0, "h1", NoKey)

\* an object with both a "method" and an "event" key
BothKeysFrame(n) == Frame(FALSE, HandlerMethod, HandlerEvent, n, "h1", NoKey)

Frames(n) ==
    RequestFrames(n) \cup NotificationFrames
        \cup {NullFrame, JunkFrame, IdlessRequest, BothKeysFrame(n)}

\* ------------------------------------------------------------------ state
VARIABLES
    pc,        \* where run() is: "init", "recv", "call", "hung", "done"
               \*   (returned), "raised" (left by an exception)
    cur,       \* the message whose capability call run() is awaiting
    inq,       \* frames written by the parent and not yet read
    sent,      \* number of frames the parent has written
    wopen,     \* the outbound pipe accepts writes
    handlers,  \* handlerId -> the Handler object (named by the id of the
               \*   Request that built it), 0 when the id is absent
    players,   \* playerId -> the MediaPlayer last registered under the id:
               \*   whether the entry is in the registry (open), and the
               \*   state of its tracks ("none", "live", "ended")
    liveObjs,  \* Handler objects built and not yet closed
    out,       \* every message written to the parent, in order
    log,       \* how run() classified each frame it has read, in order
    closed,    \* handlerIds removed by handler.close and not created again
    sigAt,     \* 0 until SIGINT/SIGTERM is delivered, then 1 + the number of
               \*   frames the parent had written at that moment
    track      \* the last getTrack() lookup of the Handler whose call is
               \*   pending, and what it gave

vars == <<pc, cur, inq, sent, wopen, handlers, players, liveObjs, out, log, closed, sigAt, track>>

NoPlayer == [open |-> FALSE, audio |-> "none", video |-> "none"]

\* no getTrack() lookup made
NoLookup == [player |-> NoKey, kind |-> NoKey, res |-> "", error |-> "", track |-> "none"]

\* ids of the Requests run() has read and built
reqIds == {i \in 1..Len(log) : log[i] = "request"}

\* -------------------------------------------------------- outbound messages
\* `by` stands for the data of a Response: 0 for none, otherwise the object
\* whose awaited call produced it (a Handler, or the RTCPeerConnection of a
\* getRtpCapabilities Request, which carries the id of that Request)
RunningNote == [type |-> "notification", id |-> 0, accepted |-> FALSE,
                error |-> "running", by |-> 0]
OkResponse(id, by) == [type |-> "response", id |-> id, accepted |-> TRUE,
                       error |-> "", by |-> by]
ErrResponse(id, error) == [type |-> "response", id |-> id, accepted |-> FALSE,
                           error |-> error, by |-> 0]

Init ==
    /\ pc = "init"
    /\ cur = NoFrame
    /\ inq = <<>>
    /\ sent = 0
    /\ wopen = TRUE
    /\ handlers = [h \in HandlerIds |-> 0]
    /\ players = [p \in PlayerIds |-> NoPlayer]
    /\ liveObjs = {}
    /\ out = <<>>
    /\ log = <<>>
    /\ closed = {}
    /\ sigAt = 0
    /\ track = NoLookup


\* ------------------------------------------------------------- registries
\* a lookup that never fails (a registry that answers every id)
HasHandlerAlways(h) == h \in HandlerIds

\* `handlerId in handlers`: the lookup of getHandler() succeeds
HasHandler(h) == h \in HandlerIds /\ handlers[h] # 0

\* getHandler(): the registry entry (a KeyError when HasHandler fails)
getHandler(h) == handlers[h]

\* `playerId in players`
HasPlayer(p) == p \in PlayerIds /\ players[p].open

\* track.stop(): the track object stays in place, ended
Stop(t) == IF t = "none" THEN "none" ELSE "ended"

\* results of the two top-level routines: what the call did to the
\* registries, and how it ended ("return", "raise", or "await": suspended
\* in a capability call made on Handler object `by`)
Result(res, error, by, hs, ps, objs) ==
    [res |-> res, error |-> error, by |-> by,
     handlers |-> hs, players |-> ps, liveObjs |-> objs]

Return == Result("return", "", 0, handlers, players, liveObjs)
Raise(error) == Result("raise", error, 0, handlers, players, liveObjs)
Await(by) == Result("await", "", by, handlers, players, liveObjs)

\* createHandler entering the id in the registry before the Handler is built
createHandlerRegistersFirst(m, buildOk) ==
    IF m.target = NoKey THEN Raise("KeyError")
    ELSE IF ~buildOk
    THEN Result("raise", "Exception", 0, [handlers EXCEPT ![m.target] = m.id],
                players, liveObjs)
    ELSE Result("return", "", 0, [handlers EXCEPT ![m.target] = m.id],
                players, liveObjs \cup {m.id})

\* the createHandler branch of processRequest(): read the handlerId, build
\* the Handler with the getTrack lookup, store it under the handlerId
createHandler(m, buildOk) ==
    IF m.target = NoKey THEN Raise("KeyError")
    ELSE IF ~buildOk THEN Raise("Exception")
    ELSE Result("return", "", 0, [handlers EXCEPT ![m.target] = m.id],
                players, liveObjs \cup {m.id})

\* getRtpCapabilities keeping the RTCPeerConnection it built
getRtpCapabilitiesKeepsPc(m) ==
    Result("await", "", m.id, handlers, players, liveObjs \cup {m.id})

\* the getRtpCapabilities branch of processRequest(): a transient
\* RTCPeerConnection (named, like a Handler, by the Request that built it)
\* is given two transceivers and awaited for its offer and its close()
getRtpCapabilities(m) == Await(m.id)

\* processRequest(request) up to its first suspension.  buildOk: the
\* constructor of the Handler / MediaPlayer returns; audio, video: the
\* tracks the opened file gives the MediaPlayer.
processRequest(m, buildOk, audio, video) ==
    IF m.method = "createHandler" THEN createHandler(m, buildOk)
    ELSE IF m.method = "createPlayer" THEN
        IF m.target = NoKey THEN Raise("KeyError")
        ELSE IF ~buildOk THEN Raise("Exception")
        ELSE Result("return", "", 0, handlers,
                    [players EXCEPT ![m.target] =
                         [open |-> TRUE, audio |-> audio, video |-> video]],
                    liveObjs)
    ELSE IF m.method = "getRtpCapabilities" THEN getRtpCapabilities(m)
    ELSE
        IF m.target = NoKey \/ ~HasHandler(m.target) THEN Raise("KeyError")
        ELSE Await(getHandler(m.target))

\* handler.close with the teardown done and the entry left in the registry
closeHandlerKeepsEntry(m) ==
    IF m.target = NoKey \/ ~HasHandler(m.target) THEN Raise("KeyError")
    ELSE Result("return", "", 0, handlers, players, liveObjs \ {handlers[m.target]})

\* the handler.close branch of processNotification(): look the Handler up,
\* close it, delete the entry
closeHandler(m) ==
    IF m.target = NoKey \/ ~HasHandler(m.target) THEN Raise("KeyError")
    ELSE Result("return", "", 0, [handlers EXCEPT ![m.target] = 0],
                players, liveObjs \ {handlers[m.target]})

\* a lookup without the `if not track` test
getTrackUnchecked(p, kind) ==
    IF ~HasPlayer(p)
    THEN [player |-> p, kind |-> kind, res |-> "raise", error |-> "KeyError", track |-> "none"]
    ELSE [player |-> p, kind |-> kind, res |-> "return", error |-> "", track |-> players[p][kind]]

\* getTrack(playerId, kind), the lookup handed to every Handler: the entry
\* of `players` (KeyError), then the track of that kind, refused when the
\* player has none; a track that was stopped is still the player's track
getTrack(p, kind) ==
    IF ~HasPlayer(p)
    THEN [player |-> p, kind |-> kind, res |-> "raise", error |-> "KeyError", track |-> "none"]
    ELSE IF players[p][kind] = "none"
    THEN [player |-> p, kind |-> kind, res |-> "raise", error |-> "no track found", track |-> "none"]
    ELSE [player |-> p, kind |-> kind, res |-> "return", error |-> "", track |-> players[p][kind]]

\* player.close deleting the entry and leaving the tracks running
closePlayerKeepsTracks(m) ==
    IF m.target = NoKey \/ ~HasPlayer(m.target) THEN Raise("KeyError")
    ELSE Result("return", "", 0, handlers,
                [players EXCEPT ![m.target].open = FALSE], liveObjs)

\* the player.close branch of processNotification(): look the player up,
\* stop the tracks it has, delete the entry
closePlayer(m) ==
    IF m.target = NoKey \/ ~HasPlayer(m.target) THEN Raise("KeyError")
    ELSE Result("return", "", 0, handlers,
                [players EXCEPT ![m.target] =
                     [open |-> FALSE, audio |-> Stop(@.audio), video |-> Stop(@.video)]],
                liveObjs)

\* player.stopTrack stopping every track of the player, whatever the kind
stopTrackStopsBoth(m) ==
    IF m.target = NoKey \/ ~HasPlayer(m.target) THEN Raise("KeyError")
    ELSE IF m.kind = NoKey THEN Raise("KeyError")
    ELSE Result("return", "", 0, handlers,
                [players EXCEPT ![m.target].audio = Stop(@),
                                ![m.target].video = Stop(@)], liveObjs)

\* the player.stopTrack branch of processNotification(): look the player
\* up, read data["kind"], stop the track of that kind if the player has one
stopTrack(m) ==
    IF m.target = NoKey \/ ~HasPlayer(m.target) THEN Raise("KeyError")
    ELSE IF m.kind = NoKey THEN Raise("KeyError")
    ELSE IF m.kind = "audio" THEN
        Result("return", "", 0, handlers,
               [players EXCEPT ![m.target].audio = Stop(@)], liveObjs)
    ELSE IF m.kind = "video" THEN
        Result("return", "", 0, handlers,
               [players EXCEPT ![m.target].video = Stop(@)], liveObjs)
    ELSE Return

\* processNotification(notification) up to its first suspension
processNotification(m) ==
    IF m.event = "handler.close" THEN closeHandler(m)
    ELSE IF m.event = "player.close" THEN closePlayer(m)
    ELSE IF m.event = "player.stopTrack" THEN stopTrack(m)
    ELSE
        IF m.target = NoKey \/ ~HasHandler(m.target) THEN Raise("KeyError")
        ELSE Await(getHandler(m.target))


\* ---------------------------------------------------------------- channel
\* Request(**obj): the object must carry the fields of a Request, and no
\* key that is not one
RequestBuilt(m) == m.id # 0 /\ m.event = NoKey

\* request.succeed(result) raises: the result does not serialize to JSON,
\* or the frame cannot be written
SucceedRaises(serializable) == ~serializable \/ ~wopen

\* request.failed(error) raises: the frame cannot be written
FailedRaises == ~wopen

\* Completion with the success Response already written when succeed()
\* raises, so that failed() writes a second Response for the same Request
CompletionWritesTwice(id, res, error, by, serializable) ==
    IF res = "return" /\ ~SucceedRaises(serializable)
    THEN [out |-> Append(out, OkResponse(id, by)), pc |-> "recv"]
    ELSE IF FailedRaises
    THEN [out |-> out, pc |-> "done"]
    ELSE IF res = "return"
    THEN [out |-> Append(Append(out, OkResponse(id, by)), ErrResponse(id, "TypeError")),
          pc |-> "recv"]
    ELSE [out |-> Append(out, ErrResponse(id, error)), pc |-> "recv"]

\* Completion with a failure only logged, as for a Notification
CompletionLogsOnly(id, res, error, by, serializable) ==
    IF res = "return" /\ ~SucceedRaises(serializable)
    THEN [out |-> Append(out, OkResponse(id, by)), pc |-> "recv"]
    ELSE [out |-> out, pc |-> "recv"]

\* The tail of run()'s Request branch once processRequest() has ended with
\* `res`: succeed(result) after a return, failed(error) after a raise or
\* after succeed() itself raised; an exception of failed() leaves the loop.
Completion(id, res, error, by, serializable) ==
    IF res = "return" /\ ~SucceedRaises(serializable)
    THEN [out |-> Append(out, OkResponse(id, by)), pc |-> "recv"]
    ELSE IF FailedRaises
    THEN [out |-> out, pc |-> "done"]
    ELSE [out |-> Append(out, ErrResponse(id, IF res = "return" THEN "TypeError" ELSE error)),
          pc |-> "recv"]

\* handlerIds closed and not created again, after the registry became hs
NewClosed(hs) ==
    {h \in HandlerIds : hs[h] = 0 /\ (h \in closed \/ handlers[h] # 0)}

\* -------------------------------------------------------------- the loop
\* a loop that takes the next frame while a capability call is pending
AwaitingReceiveOrCall == pc \in {"recv", "call"}

\* the loop is suspended in `await channel.receive()`
AwaitingReceive == pc = "recv"

\* run() entering its loop without the announcement
StartSilent ==
    /\ pc = "init"
    /\ pc' = (IF wopen THEN "recv" ELSE "raised")
    /\ UNCHANGED <<cur, inq, sent, wopen, handlers, players, liveObjs, out, log, closed, sigAt, track>>

\* run(): `await channel.notify(str(getpid()), "running")`; an exception of
\* notify() is outside the loop's try and leaves run()
Start ==
    /\ pc = "init"
    /\ IF wopen
       THEN out' = <<RunningNote>> /\ pc' = "recv"
       ELSE out' = out /\ pc' = "raised"
    /\ UNCHANGED <<cur, inq, sent, wopen, handlers, players, liveObjs, log, closed, sigAt, track>>

\* the Request branch of run(), r the result of processRequest()
RunRequest(m, r) ==
    /\ log' = Append(log, "request")
    /\ handlers' = r.handlers
    /\ players' = r.players
    /\ liveObjs' = r.liveObjs
    /\ closed' = NewClosed(r.handlers)
    /\ IF r.res = "await"
       THEN pc' = "call" /\ cur' = m /\ out' = out
       ELSE LET c == Completion(m.id, r.res, r.error, 0, TRUE)
            IN  pc' = c.pc /\ out' = c.out /\ cur' = NoFrame

\* a Notification branch that reports a failure to the parent
RunNotificationReplies(m, r) ==
    /\ handlers' = r.handlers
    /\ players' = r.players
    /\ liveObjs' = r.liveObjs
    /\ closed' = NewClosed(r.handlers)
    /\ IF r.res = "await"
       THEN pc' = "call" /\ cur' = m
       ELSE pc' = "recv" /\ cur' = NoFrame
    /\ log' = Append(log, "notification")
    /\ out' = (IF r.res = "raise" /\ wopen THEN Append(out, ErrResponse(0, r.error)) ELSE out)

\* the Notification branch of run(), r the result of processNotification():
\* an exception is logged, nothing is sent
RunNotification(m, r) ==
    /\ handlers' = r.handlers
    /\ players' = r.players
    /\ liveObjs' = r.liveObjs
    /\ closed' = NewClosed(r.handlers)
    /\ IF r.res = "await"
       THEN pc' = "call" /\ cur' = m
       ELSE pc' = "recv" /\ cur' = NoFrame
    /\ log' = Append(log, "notification")
    /\ UNCHANGED out

\* a null frame taken as the end of the stream
SkipNullEndsLoop ==
    /\ log' = Append(log, "null")
    /\ pc' = "done"
    /\ UNCHANGED <<cur, handlers, players, liveObjs, out, closed, sigAt, track>>

\* `if obj is None: continue`
SkipNull ==
    /\ log' = Append(log, "null")
    /\ UNCHANGED <<pc, cur, handlers, players, liveObjs, out, closed, sigAt, track>>

\* a dispatch that looks for the "event" key first
ClassifyEventFirst(m) ==
    IF m.event # NoKey THEN "notification"
    ELSE IF m.method # NoKey THEN "request"
    ELSE "ignored"

\* `elif "method" in obj: ... elif "event" in obj: ...`: the branch run()
\* takes for an object that is not None
Classify(m) ==
    IF m.method # NoKey THEN "request"
    ELSE IF m.event # NoKey THEN "notification"
    ELSE "ignored"

\* one turn of the loop: receive() yields the next frame, which is handled
\* up to the first capability call that suspends
Receive ==
    /\ AwaitingReceive
    /\ inq # <<>>
    /\ inq' = Tail(inq)
    /\ UNCHANGED <<sent, wopen, track, sigAt>>
    /\ LET m == Head(inq) IN
       IF m.null
       THEN SkipNull
       ELSE IF Classify(m) = "request"
       THEN IF ~RequestBuilt(m)
            THEN /\ pc' = "done"
                 /\ log' = Append(log, "rejected")
                 /\ UNCHANGED <<cur, handlers, players, liveObjs, out, closed, sigAt, track>>
            ELSE \E buildOk \in BOOLEAN, audio \in {"none", "live"}, video \in {"none", "live"} :
                     RunRequest(m, processRequest(m, buildOk, audio, video))
       ELSE IF Classify(m) = "notification"
       THEN RunNotification(m, processNotification(m))
       ELSE /\ log' = Append(log, "ignored")
            /\ UNCHANGED <<pc, cur, handlers, players, liveObjs, out, closed, sigAt, track>>

\* a loop without the outer try: the read failure leaves run() as an exception
ReceiveFailsRaises ==
    /\ AwaitingReceive
    /\ pc' = "raised"
    /\ UNCHANGED <<cur, inq, sent, wopen, handlers, players, liveObjs, out, log, closed, sigAt, track>>

\* receive() raises (read error or end of stream): `except Exception: break`
ReceiveFails ==
    /\ AwaitingReceive
    /\ pc' = "done"
    /\ UNCHANGED <<cur, inq, sent, wopen, handlers, players, liveObjs, out, log, closed, sigAt, track>>

\* the object the pending call was made on: the Handler, or the transient
\* RTCPeerConnection of getRtpCapabilities
Callee == IF cur.method = "getRtpCapabilities" THEN cur.id ELSE getHandler(cur.target)

\* the awaited capability call returns
CallReturns ==
    /\ pc = "call"
    /\ cur' = NoFrame
    /\ IF cur.method # NoKey
       THEN \E serializable \in BOOLEAN :
                LET c == Completion(cur.id, "return", "", Callee,
                                    cur.method = "getRtpCapabilities" \/ serializable)
                IN  pc' = c.pc /\ out' = c.out
       ELSE pc' = "recv" /\ out' = out
    /\ track' = NoLookup
    /\ UNCHANGED <<inq, sent, wopen, handlers, players, liveObjs, log, closed, sigAt>>

\* the awaited capability call raises
CallRaises ==
    /\ pc = "call"
    /\ cur' = NoFrame
    /\ IF cur.method # NoKey
       THEN LET c == Completion(cur.id, "raise", "Exception", 0, TRUE)
            IN  pc' = c.pc /\ out' = c.out
       ELSE pc' = "recv" /\ out' = out
    /\ track' = NoLookup
    /\ UNCHANGED <<inq, sent, wopen, handlers, players, liveObjs, log, closed, sigAt>>

\* the Handler whose call is pending looks a track up with the getTrack it
\* was built with
HandlerGetsTrack ==
    /\ pc = "call"
    /\ cur.method # "getRtpCapabilities"
    /\ \E p \in PlayerIds, kind \in {"audio", "video"} : track' = getTrack(p, kind)
    /\ UNCHANGED <<pc, cur, inq, sent, wopen, handlers, players, liveObjs, out, log, closed, sigAt>>

\* the awaited capability call is one that never completes
CallHangs ==
    /\ pc = "call"
    /\ pc' = "hung"
    /\ UNCHANGED <<cur, inq, sent, wopen, handlers, players, liveObjs, out, log, closed, sigAt, track>>

\* ------------------------------------------------------------ environment
\* the parent writes its next frame to the inbound pipe
Send ==
    /\ sent < MaxMsgs
    /\ Len(inq) < MaxQueue
    /\ \E m \in Frames(sent + 1) : inq' = Append(inq, m)
    /\ sent' = sent + 1
    /\ UNCHANGED <<pc, cur, wopen, handlers, players, liveObjs, out, log, closed, sigAt, track>>

\* the outbound pipe breaks: every later write fails
BreakWrite ==
    /\ wopen
    /\ wopen' = FALSE
    /\ UNCHANGED <<pc, cur, inq, sent, handlers, players, liveObjs, out, log, closed, sigAt, track>>

Next ==
    \/ Start
    \/ Receive
    \/ ReceiveFails
    \/ CallReturns
    \/ CallRaises
    \/ CallHangs
    \/ HandlerGetsTrack
    \/ Send
    \/ BreakWrite

Spec == Init /\ [][Next]_vars

\* SIGINT or SIGTERM is delivered while run() is under way.  The event loop
\* calls shutdown() as one of its callbacks; shutdown() is `loop.close()`,
\* which on a running loop raises RuntimeError("Cannot close a running event
\* loop").  The exception of a callback goes to the loop's exception handler
\* and the loop keeps running: run() is neither cancelled nor stopped.
Signal ==
    /\ pc \in {"recv", "call", "hung"}
    /\ sigAt = 0
    /\ sigAt' = sent + 1
    /\ UNCHANGED <<pc, cur, inq, sent, wopen, handlers, players, liveObjs, out, log, closed, track>>

SignalNext ==
    \/ Start
    \/ Receive
    \/ ReceiveFails
    \/ CallReturns
    \/ CallRaises
    \/ CallHangs
    \/ HandlerGetsTrack
    \/ Send
    \/ BreakWrite
    \/ Signal

\* the runs in which the process may be sent a termination signal
SignalSpec == Init /\ [][SignalNext]_vars

\* the parent writes its next frame, in a run checked for liveness
SendFair ==
    /\ sent < MaxFairMsgs
    /\ Send

FairNext ==
    \/ Start
    \/ Receive
    \/ ReceiveFails
    \/ CallReturns
    \/ CallRaises
    \/ CallHangs
    \/ HandlerGetsTrack
    \/ SendFair
    \/ BreakWrite

\* The event loop runs every coroutine that is ready: the loop's own steps
\* are taken when enabled, and a pending capability call either completes
\* or is one that never does.
FairSpec ==
    /\ Init /\ [][FairNext]_vars
    /\ WF_vars(Start)
    /\ WF_vars(Receive)
    /\ WF_vars(CallReturns \/ CallRaises \/ CallHangs)


\* ================================================================ claims
Responses == {k \in 1..Len(out) : out[k].type = "response"}
ResponsesTo(i) == {k \in Responses : out[k].id = i}
Answered(i) == ResponsesTo(i) # {}

\* C1: at most one Response (success or failure) is sent for each received
\* Request, also when the attempt to send the success Response raises.
C1_AtMostOneResponse ==
    \A i \in 1..MaxMsgs : Cardinality(ResponsesTo(i)) <= 1

\* a Request whose succeed() raised and which failed() then answered
C1_Witness ==
    \E k \in Responses : out[k].error = "TypeError"

\* C2: while the transport stays open, every valid Request that was read and
\* whose processing terminates is eventually answered with a Response
\* carrying its id.
C2_EventuallyAnswered ==
    \A i \in 1..MaxMsgs :
        (i \in reqIds) ~> (Answered(i) \/ (pc = "hung" /\ cur.id = i) \/ ~wopen)

\* a delegated Request answered with its Handler's result after the call
C2_Witness ==
    \E k \in Responses : out[k].accepted /\ out[k].by \notin {0, out[k].id} /\ wopen

\* a step of the loop that handles a Notification: reading one, or the end
\* of the Handler call made for one
HandlesNotification ==
    \/ /\ pc = "recv" /\ inq # <<>> /\ inq' = Tail(inq) /\ sent' = sent
       /\ ~Head(inq).null /\ Head(inq).method = NoKey /\ Head(inq).event # NoKey
    \/ /\ pc \in {"call", "hung"} /\ cur.method = NoKey /\ cur.event # NoKey

\* C3: no Response is ever sent for a Notification, whether its processing
\* succeeds, fails a lookup, or raises inside a Handler / Player operation.
C3_NoResponseForNotification ==
    [][HandlesNotification => out' = out]_vars

\* a handler.close has been processed and the Handler call made for a later
\* Notification is pending
C3_Witness ==
    closed # {} /\ pc = "call" /\ cur.event = HandlerEvent


\* the step in which run() takes the next frame from the transport
ReadsFrame == pc = "recv" /\ inq # <<>> /\ inq' = Tail(inq) /\ sent' = sent

\* number of frames run() has read
NumRead == Len(log)

\* a Handler call for Request i is pending while Request j, addressed to
\* another live handlerId, has arrived behind it
BackToBack(i, j) ==
    /\ pc = "call" /\ cur.method = HandlerMethod /\ cur.id = i
    /\ inq # <<>>
    /\ Head(inq).method = HandlerMethod /\ Head(inq).id = j /\ j # 0
    /\ Head(inq).target # cur.target
    /\ HasHandler(cur.target) /\ HasHandler(Head(inq).target)

C6_PerMessageFailureContained ==
    [][(ReadsFrame /\ wopen) => pc' # "done"]_vars

\* the createHandler Request that built the entry of h was answered successfully
CreatedOk(h) ==
    /\ h \in HandlerIds
    /\ handlers[h] # 0
    /\ \E k \in Responses : out[k] = OkResponse(handlers[h], 0)

\* no createHandler has ever put h into the registry
NeverCreated(h) == h \in HandlerIds /\ handlers[h] = 0 /\ h \notin closed

\* run() takes a well-formed non-built-in Request from the transport
ReadsHandlerRequest ==
    ReadsFrame /\ Head(inq).method = HandlerMethod /\ RequestBuilt(Head(inq))

\* C7: a non-built-in Request addressed to a handlerId whose createHandler
\* was answered successfully is delegated to that Handler and answered with
\* the Handler's result; addressed to a handlerId never created it is
\* answered with a KeyError failure and no Handler is invoked.
C7_CreateThenRequest ==
    [][/\ (ReadsHandlerRequest /\ CreatedOk(Head(inq).target)) =>
              (pc' = "call" /\ cur' = Head(inq) /\ out' = out)
       /\ (ReadsHandlerRequest /\ NeverCreated(Head(inq).target) /\ wopen) =>
              (pc' = "recv" /\ out' = Append(out, ErrResponse(Head(inq).id, "KeyError")))
       /\ (pc = "call" /\ cur.method = HandlerMethod /\ pc' = "recv") =>
              /\ CreatedOk(cur.target)
              /\ \E r \in {OkResponse(cur.id, handlers[cur.target]),
                           ErrResponse(cur.id, "Exception"),
                           ErrResponse(cur.id, "TypeError")} : out' = Append(out, r)
      ]_vars

\* createHandler, then a Request answered by the Handler it built, then a
\* Request that failed its lookup
C7_Witness ==
    /\ log = <<"request", "request", "request">>
    /\ closed = {}
    /\ \E h \in HandlerIds : handlers = [x \in HandlerIds |-> IF x = h THEN 1 ELSE 0]
    /\ out = <<RunningNote, OkResponse(1, 0), OkResponse(2, 1), ErrResponse(3, "KeyError")>>

\* C8: a handler.close addressed to a live handlerId removes it from the
\* registry, and every later Request addressed to it is answered with a
\* KeyError failure until a createHandler puts the id back.
C8_CloseRemoves ==
    [][/\ (ReadsFrame /\ Head(inq).method = NoKey /\ Head(inq).event = "handler.close"
              /\ HasHandler(Head(inq).target)) =>
              /\ handlers'[Head(inq).target] = 0
              /\ Head(inq).target \in closed'
              /\ pc' = "recv"
       /\ (ReadsHandlerRequest /\ Head(inq).target \in closed /\ wopen) =>
              (pc' = "recv" /\ out' = Append(out, ErrResponse(Head(inq).id, "KeyError")))
       /\ \A h \in closed : ~HasHandler(h)
      ]_vars

\* a Request addressed to a handlerId that was created and closed has been
\* read and answered with the lookup failure
C8_Witness ==
    /\ log = <<"request", "notification", "request">>
    /\ closed # {}
    /\ out = <<RunningNote, OkResponse(1, 0), ErrResponse(3, "KeyError")>>

\* C9: a frame for which receive() yields null changes nothing but the
\* transport: no Response, no capability call, no registry change, and the
\* loop goes on to receive the next frame.
C9_NullFrameSkipped ==
    [][(ReadsFrame /\ Head(inq).null) =>
          /\ pc' = "recv"
          /\ UNCHANGED <<cur, wopen, handlers, players, liveObjs, out, closed>>]_vars

\* a Request read right after a null frame has been answered
C9_Witness ==
    /\ Len(log) >= 2
    /\ \E n \in 1..(Len(log) - 1) :
           log[n] = "null" /\ log[n + 1] = "request" /\ Answered(n + 1)

\* C10: on entering the loop exactly one "running" Notification is sent; it
\* is the first outbound message and precedes the reading of any frame.
C10_RunningFirst ==
    (pc \in {"recv", "call", "hung"} \/ log # <<>> \/ out # <<>>) =>
        /\ out # <<>>
        /\ out[1] = RunningNote
        /\ \A k \in 2..Len(out) : out[k].type = "response"

\* a Response has been sent after the announcement
C10_Witness ==
    Len(out) >= 2 /\ out[1] = RunningNote /\ log # <<>>


\* the step in which receive() fails: the loop leaves its wait with no frame
\* taken from the transport
ReadFails == pc = "recv" /\ pc' # "recv" /\ inq' = inq

\* C11: when reading from the transport fails the loop leaves Running for
\* good: run() returns normally, and from then on no frame is read, nothing
\* is sent and no registry changes.
C11_ReadFailureEndsLoop ==
    [][/\ ReadFails => pc' = "done"
       /\ pc = "done" =>
              /\ pc' = "done"
              /\ Len(inq') >= Len(inq)
              /\ UNCHANGED <<cur, handlers, players, liveObjs, out, log, closed>>
      ]_vars

\* the loop has ended on a read failure (the outbound pipe is intact and no
\* frame was rejected) with Responses sent before and a frame left unread
C11_Witness ==
    /\ pc = "done" /\ wopen /\ inq # <<>>
    /\ \A n \in 1..Len(log) : log[n] # "rejected"
    /\ Len(out) >= 2


\* C12: after SIGINT/SIGTERM is delivered while the loop is Running the loop
\* is force-closed: no frame the parent writes after the signal is read.
C12_NoMessageAfterSignal ==
    [][(sigAt # 0 /\ pc = "recv" /\ inq # <<>> /\ inq' = Tail(inq))
          => Len(log) + 1 < sigAt]_vars


\* the loop reads a Notification of the given event
ReadsEvent(event) ==
    /\ ReadsFrame
    /\ ~Head(inq).null /\ Head(inq).method = NoKey /\ Head(inq).event = event

OtherKind(k) == IF k = "audio" THEN "video" ELSE "audio"

\* C13: player.stopTrack for a live playerId stops the track of the named
\* kind only: the track of the other kind keeps its state, and the player
\* stays in the registry, where a later stopTrack for the other kind finds it.
C13_StopTrackStopsNamedKind ==
    [][LET m == Head(inq) IN
       (ReadsEvent("player.stopTrack") /\ HasPlayer(m.target) /\ m.kind # NoKey) =>
           /\ players'[m.target].open
           /\ players'[m.target][m.kind] =
                  (IF players[m.target][m.kind] = "live"
                   THEN "ended" ELSE players[m.target][m.kind])
           /\ players'[m.target][OtherKind(m.kind)] = players[m.target][OtherKind(m.kind)]
           /\ UNCHANGED <<handlers, liveObjs, out>>
      ]_vars

\* one stopTrack has ended the audio track and left the video track live
C13_Witness ==
    /\ players["p1"] = [open |-> TRUE, audio |-> "ended", video |-> "live"]
    /\ pc = "recv"


\* C14: player.close for a live playerId stops each track the player has and
\* removes the playerId; from then on stopTrack, close and track lookups for
\* that id fail as lookup errors and change nothing; `handlers` is untouched.
C14_ClosePlayerRemoves ==
    [][LET m == Head(inq) IN
       /\ (ReadsEvent("player.close") /\ HasPlayer(m.target)) =>
              /\ ~players'[m.target].open
              /\ \A k \in {"audio", "video"} :
                     players'[m.target][k] =
                         (IF players[m.target][k] = "none" THEN "none" ELSE "ended")
              /\ UNCHANGED <<handlers, liveObjs, out>>
       /\ ((ReadsEvent("player.close") \/ ReadsEvent("player.stopTrack"))
              /\ m.target \in PlayerIds /\ ~HasPlayer(m.target)) =>
              /\ processNotification(m).error = "KeyError"
              /\ pc' = "recv"
              /\ UNCHANGED <<handlers, players, liveObjs, out>>
       /\ \A p \in PlayerIds, k \in {"audio", "video"} :
              ~players[p].open => getTrack(p, k).error = "KeyError"
      ]_vars

\* a player with two tracks was closed while a Handler was registered, and
\* the loop is back at receive()
C14_Witness ==
    /\ players["p1"] = [open |-> FALSE, audio |-> "ended", video |-> "ended"]
    /\ log[Len(log)] = "notification"
    /\ handlers["h1"] # 0
    /\ pc = "recv"


\* the loop reads a Request of the given method, complete with its id
ReadsMethod(method) ==
    /\ ReadsFrame
    /\ ~Head(inq).null /\ Head(inq).method = method /\ RequestBuilt(Head(inq))

\* C15: getRtpCapabilities is answered with the session description of the
\* offer its own RTCPeerConnection generated, and leaves both registries as
\* they were, whether it succeeds or fails.
C15_GetRtpCapabilitiesTransient ==
    [][/\ ReadsMethod("getRtpCapabilities") =>
              /\ pc' = "call" /\ cur' = Head(inq)
              /\ UNCHANGED <<handlers, players, liveObjs, out>>
       /\ (pc \in {"call", "hung"} /\ cur.method = "getRtpCapabilities") =>
              /\ UNCHANGED <<handlers, players, liveObjs>>
              /\ cur.id \notin liveObjs
              /\ out' # out =>
                     \/ out' = Append(out, OkResponse(cur.id, cur.id))
                     \/ out' = Append(out, ErrResponse(cur.id, "Exception"))
      ]_vars

\* a getRtpCapabilities Request was answered with its offer while a Handler
\* and a player were registered
C15_Witness ==
    /\ \E i \in reqIds : OkResponse(i, i) \in {out[k] : k \in 1..Len(out)}
    /\ handlers["h1"] # 0
    /\ players["p1"].open


\* C16: a handlerId is never reused while live: every Handler built and not
\* yet closed is the registry entry of its id, so no live Handler is out of
\* reach of the handler.close that would tear it down.
C16_LiveHandlersReachable ==
    liveObjs \subseteq {handlers[h] : h \in HandlerIds}


\* C17: an object is taken into the Request branch iff it has a method key,
\* into the Notification branch iff it has no method key and has an event
\* key, and is otherwise ignored: an ignored object produces no Response, no
\* capability call and no registry change, and the loop goes on.
C17_ClassifiedByKeys ==
    [][LET m == Head(inq)
           tag == log'[Len(log')]
       IN  (ReadsFrame /\ ~m.null) =>
               /\ Len(log') = Len(log) + 1
               /\ tag \in {"request", "rejected"} <=> m.method # NoKey
               /\ tag = "notification" <=> (m.method = NoKey /\ m.event # NoKey)
               /\ tag = "ignored" <=> (m.method = NoKey /\ m.event = NoKey)
               /\ tag = "request" =>
                      (pc' = "call" /\ cur' = m) \/ out' # out \/ pc' = "done"
               /\ tag = "notification" =>
                      out' = out /\ ((pc' = "call" /\ cur' = m) \/ pc' = "recv")
               /\ tag = "ignored" =>
                      /\ pc' = "recv"
                      /\ UNCHANGED <<cur, handlers, players, liveObjs, out, closed>>
      ]_vars

\* an object with neither key was ignored while a Handler was registered, and
\* a Request read after it has been answered
C17_Witness ==
    /\ \E n \in 1..Len(log), i \in reqIds :
           log[n] = "ignored" /\ n < i /\ Answered(i)
    /\ handlers["h1"] # 0


\* C18: getTrack(playerId, kind) returns a track only if playerId is live
\* and that player has an active track of the requested kind: it fails for
\* a track that player.stopTrack has already stopped.
C18_GetTrackReturnsActiveTrack ==
    track.res = "return" =>
        HasPlayer(track.player) /\ players[track.player][track.kind] = "live"

\* C18 (as the code has it): getTrack(playerId, kind) returns the player's
\* track of the requested kind iff playerId is live and the player has such
\* a track, stopped or not; it fails with a lookup error for an unknown or
\* closed playerId and with "no track found" for a player without a track of
\* that kind; it never changes either registry.
C18_GetTrackReturnsPresentTrack ==
    [][(track' # track /\ track' # NoLookup) =>
           LET p == track'.player
               k == track'.kind
           IN  /\ UNCHANGED <<handlers, players, liveObjs>>
               /\ track'.res = "return" <=> (HasPlayer(p) /\ players[p][k] # "none")
               /\ track'.res = "return" => track'.track = players[p][k]
               /\ ~HasPlayer(p) => track'.res = "raise" /\ track'.error = "KeyError"
               /\ (HasPlayer(p) /\ players[p][k] = "none") =>
                      track'.res = "raise" /\ track'.error = "no track found"
      ]_vars

\* a Handler was given the audio track of a live player after
\* player.stopTrack had stopped it
C18_Witness ==
    /\ pc = "call"
    /\ track.res = "return" /\ track.track = "ended"
    /\ players["p1"].open /\ players["p1"].audio = "ended"
    /\ track.kind = "audio"


\* a Notification whose processing raises before any capability call: its
\* id is missing or not in the registry, or data["kind"] is missing
NotificationRaises(m) ==
    \/ m.target = NoKey
    \/ m.event \in {"player.close", "player.stopTrack"} /\ ~HasPlayer(m.target)
    \/ m.event \notin {"player.close", "player.stopTrack"} /\ ~HasHandler(m.target)
    \/ m.event = "player.stopTrack" /\ m.kind = NoKey

DelegatedCall == cur.method # "getRtpCapabilities"

\* C20: the dispatcher never uses a Handler after removing it: while a
\* delegated call is pending no frame is read, so no handler.close is
\* processed and the registry and the Handler stay as they are; and a
\* delegated call is started only on a Handler that is the registry entry of
\* its id and has not been closed.
C20_NoUseAfterRemoval ==
    [][/\ pc \in {"call", "hung"} =>
              /\ log' = log
              /\ Len(inq') >= Len(inq)
              /\ UNCHANGED <<handlers, liveObjs, closed>>
              /\ pc' \in {"call", "hung"} => cur' = cur
       /\ (pc # "call" /\ pc' = "call" /\ DelegatedCall') =>
              /\ pc = "recv" /\ cur' = Head(inq)
              /\ handlers'[cur'.target] # 0
              /\ handlers'[cur'.target] \in liveObjs'
              /\ cur'.target \notin closed'
      ]_vars

\* a Handler answered a delegated Request and was closed by a handler.close
\* read after that Response
C20_Witness ==
    /\ pc = "recv"
    /\ \E k \in Responses :
           /\ out[k].accepted
           /\ out[k].by \notin {0, out[k].id}
           /\ out[k].by \notin liveObjs
    /\ closed # {}
    /\ log[Len(log)] = "notification"

====
